---- MODULE Spec2Model ----
(***************************************************************************)
(* XRSS: the cache / refresh-coordination layer of src/xrss/main.py.       *)
(*                                                                         *)
(* Tasks of the asyncio event loop are modelled as records with a program  *)
(* counter; one action is one run of a task between two suspension points  *)
(* (await redis.get / redis.setex, the semaphore, the upstream call, the   *)
(* pacing sleep).  asyncio.gather (return_exceptions=False) hands the      *)
(* first exception to its awaiter and leaves the other children running.   *)
(* Starlette's BackgroundTasks runs the added tasks one after another      *)
(* once the response is out, and an exception of one ends the run.         *)
(***************************************************************************)
EXTENDS Integers, Sequences, FiniteSets, TLC

\* ---------------------------------------------------------------- bounds
NumRequests == 2        \* get_tweets requests in one run
MaxHandles == 2         \* longest usernames list of a request
MaxNames == 2           \* names listed by all requests of one run together
MaxPermits == 2         \* largest settings.max_concurrent_requests tried
MaxTicks == 1           \* clock ticks in one run
CacheTtl == 1           \* settings.cache_ttl, in clock ticks
MaxTtl == 2             \* largest settings.cache_ttl tried, in clock ticks
MaxTtlTicks == 3        \* clock ticks in one run with cache_ttl up to MaxTtl
MaxDelay == 1           \* largest settings.request_delay tried, in clock ticks
MaxPacedTicks == 4      \* clock ticks in one run with request_delay >= 1
MaxBatch == 2           \* longest own-timeline batch tried with every type
MaxMerge == 2           \* longest batch tried for merging
MaxIds == 3             \* tweet ids in the batches tried for merging
MaxTimes == 2           \* creation instants in the batches tried for merging
MaxText == 5            \* characters after the head of a text

Handles == {"alice", "bob"}
Req == 1..NumRequests
Slot == 1..MaxHandles
RefKinds == {"fg", "bg"}
RefId == RefKinds \X Req \X Slot
CallKinds == {"profile", "Tweets", "Replies"}

RECURSIVE SeqsUpTo(_, _)
SeqsUpTo(S, n) ==
    IF n = 0 THEN {<<>>}
    ELSE LET shorter == SeqsUpTo(S, n - 1)
         IN  shorter \cup {Append(s, x) : s \in {t \in shorter : Len(t) = n - 1}, x \in S}

UsernameLists == SeqsUpTo(Handles, MaxHandles)

\* ------------------------------------------------------- upstream tweets
\* A text is the sequence of its characters.
RT == <<"R", "T", " ", "@">>

\* utils.py 34-55: str.startswith, str.find (0 when there is no colon; the
\* positions of a sequence count from 1), and the slice [colon_index + 2:].
startswith(tweet, prefix) ==
    Len(tweet) >= Len(prefix) /\ SubSeq(tweet, 1, Len(prefix)) = prefix

find(tweet, c) ==
    IF \E n \in 1..Len(tweet) : tweet[n] = c
    THEN CHOOSE n \in 1..Len(tweet) : tweet[n] = c /\ \A m \in 1..(n - 1) : tweet[m] # c
    ELSE 0

\* The slice tweet[start:], start counted from 0.
SliceFrom(tweet, start) ==
    IF start >= Len(tweet) THEN <<>> ELSE SubSeq(tweet, start + 1, Len(tweet))

\* clean_tweet cutting at the last colon instead of the first.
CleanAtLastColon(tweet) ==
    IF startswith(tweet, RT) /\ find(tweet, ":") # 0
    THEN LET colon_index == (CHOOSE n \in 1..Len(tweet) :
                                tweet[n] = ":" /\ \A m \in (n + 1)..Len(tweet) : tweet[m] # ":") - 1
         IN  SliceFrom(tweet, colon_index + 2)
    ELSE tweet

\* utils.py 34-55.
clean_tweet(tweet) ==
    IF startswith(tweet, RT)
    THEN LET colon_index == find(tweet, ":") - 1
         IN  IF colon_index # -1 THEN SliceFrom(tweet, colon_index + 2) ELSE tweet
    ELSE tweet

\* A twikit Tweet, by the attributes main.py reads.  created_at is the
\* instant the "%a %b %d %H:%M:%S +0000 %Y" text denotes.  thread,
\* retweeted_tweet and in_reply_to say whether the attribute is not None,
\* replies_given whether replies is not None, is_quote_status whether it is
\* True.
Tweet(id, created_at, full_text, thread, retweeted_tweet, replies_given, replies, in_reply_to, is_quote_status) ==
    [id |-> id, created_at |-> created_at, full_text |-> full_text, thread |-> thread,
     retweeted_tweet |-> retweeted_tweet, replies_given |-> replies_given,
     replies |-> replies, in_reply_to |-> in_reply_to,
     is_quote_status |-> is_quote_status]

\* A member of tweet.replies, by the attributes main.py 133-139 reads.
Reply(id, created_at, full_text, username, user_id) ==
    [id |-> id, created_at |-> created_at, full_text |-> full_text,
     user |-> [screen_name |-> username, id |-> user_id]]

\* id 1: plain post at T1; id 2: retweet at T2; id 3: reply at T3;
\* id 4: a thread member at T2 (same instant as id 2) with one reply;
\* id 5: a quote at T4.
TweetTable ==
    <<Tweet(1, 1, <<"h", "i">>, FALSE, FALSE, FALSE, <<>>, FALSE, FALSE),
      Tweet(2, 2, RT \o <<"u", ":", " ", "h", "i">>, FALSE, TRUE,  FALSE, <<>>, FALSE, FALSE),
      Tweet(3, 3, <<"@", "u", " ", "n", "o">>, FALSE, FALSE, TRUE,  <<>>, TRUE,  FALSE),
      Tweet(4, 2, <<"1", "/">>, TRUE,  FALSE, TRUE,
            <<Reply(9, 3, RT \o <<"a", ":", " ", "o", "k">>, "bob", 7)>>, FALSE, FALSE),
      Tweet(5, 4, <<"s", "e", "e">>, FALSE, FALSE, FALSE, <<>>, FALSE, TRUE)>>

\* What user.get_tweets(tweet_type=kind) may return: a batch of tweets.
UpstreamBatches(kind) ==
    IF kind = "Tweets" THEN {<<TweetTable[1], TweetTable[2]>>, <<TweetTable[4]>>}
    ELSE {<<TweetTable[2], TweetTable[3]>>}

\* _get_tweet_type with the reply test (main.py 173) ahead of the others.
ReplyFirst(tweet) ==
    IF (tweet.replies_given /\ Len(tweet.replies) > 0) \/ tweet.in_reply_to THEN "Reply"
    ELSE IF tweet.thread THEN "Thread"
    ELSE IF tweet.retweeted_tweet THEN "Retweet"
    ELSE IF tweet.is_quote_status THEN "Quote"
    ELSE "Post"

\* main.py 157-179.
_get_tweet_type(tweet) ==
    IF tweet.thread THEN "Thread"
    ELSE IF tweet.retweeted_tweet THEN "Retweet"
    ELSE IF (tweet.replies_given /\ Len(tweet.replies) > 0) \/ tweet.in_reply_to THEN "Reply"
    ELSE IF tweet.is_quote_status THEN "Quote"
    ELSE "Post"

\* main.py 112-118: first occurrence of each id, batch by batch.
RECURSIVE Dedupe(_, _)
Dedupe(tweets, seen_tweet_ids) ==
    IF tweets = <<>> THEN <<>>
    ELSE IF Head(tweets).id \in seen_tweet_ids THEN Dedupe(Tail(tweets), seen_tweet_ids)
    ELSE <<Head(tweets)>> \o Dedupe(Tail(tweets), seen_tweet_ids \cup {Head(tweets).id})

RECURSIVE InsertDesc(_, _)

\* InsertDesc that puts a tweet ahead of those of its own instant.
InsertDescAhead(sorted, tweet) ==
    IF sorted = <<>> THEN <<tweet>>
    ELSE IF Head(sorted).created_at > tweet.created_at
         THEN <<Head(sorted)>> \o InsertDesc(Tail(sorted), tweet)
         ELSE <<tweet>> \o sorted

\* main.py 121-124: list.sort(key=created_at, reverse=True) is stable: equal
\* keys keep their order.  Insertion after the last element that is not older.
InsertDesc(sorted, tweet) ==
    IF sorted = <<>> THEN <<tweet>>
    ELSE IF Head(sorted).created_at >= tweet.created_at
         THEN <<Head(sorted)>> \o InsertDesc(Tail(sorted), tweet)
         ELSE <<tweet>> \o sorted

RECURSIVE SortDesc(_, _)
SortDesc(tweets, acc) ==
    IF tweets = <<>> THEN acc ELSE SortDesc(Tail(tweets), InsertDesc(acc, Head(tweets)))

\* main.py 132-141: tweet.replies or [], one dict per reply.
ProcessedReplies(tweet) ==
    [n \in 1..Len(tweet.replies) |->
        [id |-> tweet.replies[n].id,
         full_text |-> clean_tweet(tweet.replies[n].full_text),
         username |-> tweet.replies[n].user.screen_name,
         user_id |-> tweet.replies[n].user.id,
         created_at |-> tweet.replies[n].created_at]]

\* main.py 126-144: the dicts written to tweets:{username}.
ProcessedTweet(tweet) ==
    [created_at |-> tweet.created_at, type |-> _get_tweet_type(tweet), id |-> tweet.id,
     full_text |-> clean_tweet(tweet.full_text), in_reply_to |-> ProcessedReplies(tweet)]

ProcessTweets(tweets, replies) ==
    LET all_tweets == SortDesc(Dedupe(tweets \o replies, {}), <<>>)
    IN  [n \in 1..Len(all_tweets) |-> ProcessedTweet(all_tweets[n])]

\* ------------------------------------------------------------ variables
VARIABLES
    max_concurrent_requests,  \* settings.max_concurrent_requests
    request_delay,            \* settings.request_delay, in clock ticks
    cache_ttl,                \* settings.cache_ttl, in clock ticks
    api_semaphore,            \* free permits of asyncio.Semaphore
    last_release,             \* ticks since a permit was last released, up to request_delay
    redis,                    \* key -> [val, ttl]; ttl = 0: no such key
    clock,                    \* ticks so far
    request,                  \* get_tweets requests
    cached,                   \* get_cached_tweets tasks, one per listed name
    refresh,                  \* refresh_user_tweets_cache invocations
    limited,                  \* rate_limited_request calls of an invocation
    background                \* the BackgroundTasks run of a request

vars == <<max_concurrent_requests, request_delay, cache_ttl, api_semaphore, last_release, redis, clock, request, cached, refresh, limited, background>>

\* config.py 21, 27-28: read once, at import.
settings == <<max_concurrent_requests, request_delay, cache_ttl>>

\* The include_* flags of a request.
Flags(posts, replies, retweets, quotes) ==
    [include_posts |-> posts, include_replies |-> replies,
     include_retweets |-> retweets, include_quotes |-> quotes]

\* main.py 186-189: the defaults.
Defaults == Flags(TRUE, TRUE, TRUE, TRUE)
IncludeFlags == {Defaults}

Keys == {"user", "tweets"} \X Handles
NoEntry == [val |-> <<>>, ttl |-> 0]
Present(k) == redis[k].ttl > 0

\* A setex that appends the new value to the value already stored.
SetexAppends(store, k, ttl, v) == [store EXCEPT ![k] = [val |-> store[k].val \o v, ttl |-> ttl]]

\* redis.setex(key, ttl, value): unconditional overwrite, new countdown.
redis_setex(store, k, ttl, v) == [store EXCEPT ![k] = [val |-> v, ttl |-> ttl]]

NoCalls == [k \in CallKinds |-> 0]
NoResult == [h \in Handles |-> <<>>]
IdleReq == [pc |-> "idle", usernames |-> <<>>, flags |-> Defaults, err |-> "none", result |-> NoResult]
IdleGct == [pc |-> "none", val |-> <<>>, err |-> "none", reads |-> 0, hit |-> FALSE]
IdleRf  == [pc |-> "none", err |-> "none", calls |-> NoCalls,
            wrote_user |-> 0, wrote_tweets |-> 0, written |-> <<>>]
IdleRl  == [pc |-> "none", res |-> <<>>, err |-> "none", sleep |-> 0]
IdleBgr == [pc |-> "none", pos |-> 0]

\* main.py 40-54: the application as imported, nothing cached, no request
\* yet, every permit free.
Fresh ==
    /\ api_semaphore = max_concurrent_requests
    /\ last_release = request_delay
    /\ redis = [k \in Keys |-> NoEntry]
    /\ clock = 0
    /\ request = [r \in Req |-> IdleReq]
    /\ cached = [r \in Req |-> [i \in Slot |-> IdleGct]]
    /\ refresh = [f \in RefId |-> IdleRf]
    /\ limited = [f \in RefId |-> [k \in CallKinds |-> IdleRl]]
    /\ background = [r \in Req |-> IdleBgr]

\* A tick is of the order of cache_ttl, next to which request_delay is nothing.
Init ==
    /\ max_concurrent_requests \in 1..MaxPermits
    /\ request_delay = 0
    /\ cache_ttl = CacheTtl
    /\ Fresh

HandleOf(f) == request[f[2]].usernames[f[3]]

\* ------------------------------------------------------------- get_tweets
\* Included that keeps every post of the four types, whatever the flags.
IncludedWhateverFlags(flags, tweet) ==
    tweet.type \in {"Post", "Reply", "Retweet", "Quote"}

\* Included with a thread kept as a post is.
IncludedThreadsAsPosts(flags, tweet) ==
    \/ flags.include_posts /\ tweet.type \in {"Post", "Thread"}
    \/ flags.include_replies /\ tweet.type = "Reply"
    \/ flags.include_retweets /\ tweet.type = "Retweet"
    \/ flags.include_quotes /\ tweet.type = "Quote"

\* main.py 247-254: the comprehension's condition.
Included(flags, tweet) ==
    \/ flags.include_posts /\ tweet.type = "Post"
    \/ flags.include_replies /\ tweet.type = "Reply"
    \/ flags.include_retweets /\ tweet.type = "Retweet"
    \/ flags.include_quotes /\ tweet.type = "Quote"

RECURSIVE FilterTweets(_, _)
FilterTweets(flags, user_tweets) ==
    IF user_tweets = <<>> THEN <<>>
    ELSE (IF Included(flags, Head(user_tweets)) THEN <<Head(user_tweets)>> ELSE <<>>)
         \o FilterTweets(flags, Tail(user_tweets))

\* main.py 245-254: result[username] for each (username, user_tweets) of the
\* zip; a name listed twice keeps the later list.
LastSlot(usernames, h) ==
    CHOOSE i \in 1..Len(usernames) :
        /\ usernames[i] = h
        /\ \A j \in (i + 1)..Len(usernames) : usernames[j] # h

\* The dict's keys are the listed names; a name that is no key maps to <<>>.
BuildResult(r) ==
    LET usernames == request[r].usernames
        flags == request[r].flags
    IN  [h \in Handles |->
            IF h \in {usernames[i] : i \in 1..Len(usernames)}
            THEN FilterTweets(flags, cached[r][LastSlot(usernames, h)].val)
            ELSE <<>>]

\* main.py 206-207 and the entry of the try block.
Listed == LET RECURSIVE Sum(_)
              Sum(n) == IF n = 0 THEN 0 ELSE Len(request[n].usernames) + Sum(n - 1)
          IN  Sum(NumRequests)

\* Requests are numbered in the order they arrive, and the first name ever
\* listed is called "alice".
StartRequest(r, usernames, flags) ==
    /\ request[r].pc = "idle"
    /\ \A q \in 1..(r - 1) : request[q].pc # "idle"
    /\ Listed + Len(usernames) <= MaxNames
    /\ (Listed = 0 /\ Len(usernames) > 0) => usernames[1] = "alice"
    /\ request' = [request EXCEPT ![r].usernames = usernames, ![r].flags = flags,
                          ![r].pc = IF Len(usernames) = 0 THEN "served" ELSE "auth"]
    /\ UNCHANGED <<settings, last_release, clock, api_semaphore, redis, cached, refresh, limited, background>>

\* main.py 211-234 raising (cookie check and login both fail): 258-260.
AuthFails(r) ==
    /\ request[r].pc = "auth"
    /\ request' = [request EXCEPT ![r].pc = "failed", ![r].err = "error"]
    /\ UNCHANGED <<settings, last_release, clock, api_semaphore, redis, cached, refresh, limited, background>>

\* main.py 237-238: one get_cached_tweets task per listed name, gathered.
AuthOk(r) ==
    /\ request[r].pc = "auth"
    /\ request' = [request EXCEPT ![r].pc = "gather"]
    /\ cached' = [cached EXCEPT ![r] = [i \in Slot |->
                  IF i <= Len(request[r].usernames)
                  THEN [IdleGct EXCEPT !.pc = "read1"] ELSE IdleGct]]
    /\ UNCHANGED <<settings, last_release, clock, api_semaphore, redis, refresh, limited, background>>

\* ------------------------------------------------- refresh_user_tweets_cache
\* main.py 88-89: a new invocation, about to enter rate_limited_request for
\* the profile fetch.
NewRefresh(rfv, f) == [rfv EXCEPT ![f] = [IdleRf EXCEPT !.pc = "profile"]]
NewProfileCall(rlv, f) == [rlv EXCEPT ![f]["profile"].pc = "wait"]

\* The except UserNotFound clause left out.
HttpErrorGeneric(e) == "error"

\* main.py 149-154: UserNotFound becomes HTTPException(404); anything else is
\* logged and re-raised.
HttpError(e) == IF e = "notfound" THEN "404" ELSE "error"

\* RefreshRaises with the exception swallowed: the awaiting get_cached_tweets
\* returns [].
RefreshSwallows(f, e) ==
    LET r == f[2]
        i == f[3]
    IN  /\ refresh' = [refresh EXCEPT ![f].pc = "failed", ![f].err = HttpError(e)]
        /\ IF f[1] = "fg"
           THEN /\ cached' = [cached EXCEPT ![r][i].pc = "returned"]
                /\ UNCHANGED <<request, background>>
           ELSE /\ background' = [background EXCEPT ![r].pc = "aborted"]
                /\ UNCHANGED <<cached, request>>

\* RefreshRaises with a background failure handed to the request as well.
RefreshRaisesToRequest(f, e) ==
    LET r == f[2]
        i == f[3]
    IN  /\ refresh' = [refresh EXCEPT ![f].pc = "failed", ![f].err = HttpError(e)]
        /\ IF f[1] = "fg"
           THEN /\ cached' = [cached EXCEPT ![r][i].pc = "raised", ![r][i].err = HttpError(e)]
                /\ request' = IF request[r].pc = "gather"
                          THEN [request EXCEPT ![r].pc = "failed", ![r].err = HttpError(e)]
                          ELSE request
                /\ background' = background
           ELSE /\ background' = [background EXCEPT ![r].pc = "aborted"]
                /\ request' = [request EXCEPT ![r].pc = "failed", ![r].err = HttpError(e),
                                      ![r].result = NoResult]
                /\ cached' = cached

\* main.py 149-154: the invocation ends raising, and so does the frame that
\* awaits it.  Foreground: get_cached_tweets (81) has no handler and its task
\* ends with the exception; the gather of get_tweets (238) hands the first
\* exception of its tasks to get_tweets, which logs and re-raises (258-260).
\* Background: the run of the added tasks ends with the exception, the tasks
\* added after this one are not called.
RefreshRaises(f, e) ==
    LET r == f[2]
        i == f[3]
    IN  /\ refresh' = [refresh EXCEPT ![f].pc = "failed", ![f].err = HttpError(e)]
        /\ IF f[1] = "fg"
           THEN /\ cached' = [cached EXCEPT ![r][i].pc = "raised", ![r][i].err = HttpError(e)]
                /\ request' = IF request[r].pc = "gather"
                          THEN [request EXCEPT ![r].pc = "failed", ![r].err = HttpError(e)]
                          ELSE request
                /\ background' = background
           ELSE /\ background' = [background EXCEPT ![r].pc = "aborted"]
                /\ UNCHANGED <<cached, request>>

\* ----------------------------------------------------- rate_limited_request
\* Admit with the semaphore's check left out.
AdmitUnguarded(f, k) ==
    /\ limited[f][k].pc = "wait"
    /\ api_semaphore' = api_semaphore - 1
    /\ limited' = [limited EXCEPT ![f][k].pc = "call"]
    /\ refresh' = [refresh EXCEPT ![f].calls[k] = @ + 1]
    /\ UNCHANGED <<settings, last_release, clock, redis, request, cached, background>>

\* main.py 59: async with api_semaphore, the permit taken; 60: the upstream
\* coroutine starts.
Admit(f, k) ==
    /\ limited[f][k].pc = "wait"
    /\ api_semaphore > 0
    /\ api_semaphore' = api_semaphore - 1
    /\ limited' = [limited EXCEPT ![f][k].pc = "call"]
    /\ refresh' = [refresh EXCEPT ![f].calls[k] = @ + 1]
    /\ UNCHANGED <<settings, last_release, clock, redis, request, cached, background>>

\* main.py 60-61: the upstream call returns; the task sleeps request_delay
\* with the permit still held.
UpstreamReturns(f, k, res) ==
    /\ limited[f][k].pc = "call"
    /\ limited' = [limited EXCEPT ![f][k].pc = "sleep", ![f][k].res = res,
                                  ![f][k].sleep = request_delay]
    /\ UNCHANGED <<settings, last_release, clock, api_semaphore, redis, request, cached, refresh, background>>

\* main.py 60: the upstream call never answers; the await never completes,
\* and nothing in rate_limited_request bounds it.
Hangs(f, k) ==
    /\ limited[f][k].pc = "call"
    /\ limited' = [limited EXCEPT ![f][k].pc = "hung"]
    /\ UNCHANGED <<settings, last_release, clock, api_semaphore, redis, request, cached, refresh, background>>

\* UpstreamRaises with the permit kept by the call that raised.
UpstreamRaisesKeepsPermit(f, k, e) ==
    /\ limited[f][k].pc = "call"
    /\ limited' = [limited EXCEPT ![f][k].pc = "failed", ![f][k].err = e]
    /\ IF refresh[f].pc = (IF k = "profile" THEN "profile" ELSE "gather")
       THEN RefreshRaises(f, e)
       ELSE UNCHANGED <<refresh, cached, request, background>>
    /\ UNCHANGED <<settings, last_release, api_semaphore, clock, redis>>

\* main.py 59-60: the upstream call raises; the semaphore's __aexit__ frees
\* the permit at once and the exception reaches the invocation if it still
\* awaits this call (89, or the gather of 109).
UpstreamRaises(f, k, e) ==
    /\ limited[f][k].pc = "call"
    /\ limited' = [limited EXCEPT ![f][k].pc = "failed", ![f][k].err = e]
    /\ api_semaphore' = api_semaphore + 1
    /\ last_release' = 0
    /\ IF refresh[f].pc = (IF k = "profile" THEN "profile" ELSE "gather")
       THEN RefreshRaises(f, e)
       ELSE UNCHANGED <<refresh, cached, request, background>>
    /\ UNCHANGED <<settings, clock, redis>>

\* SleepDone with the permit of the profile fetch kept by the invocation
\* while it goes on to its batch fetches.
SleepDoneKeepsProfilePermit(f, k) ==
    /\ limited[f][k].pc = "sleep"
    /\ limited[f][k].sleep = 0
    /\ limited' = [limited EXCEPT ![f][k].pc = "done"]
    /\ api_semaphore' = IF k = "profile" THEN api_semaphore ELSE api_semaphore + 1
    /\ last_release' = 0
    /\ refresh' = IF k = "profile" THEN [refresh EXCEPT ![f].pc = "setex_user"] ELSE refresh
    /\ UNCHANGED <<settings, clock, redis, request, cached, background>>

\* main.py 61-62: the sleep is over, the permit is freed, the result returned.
\* After the profile fetch the invocation goes on to redis.setex (92).
SleepDone(f, k) ==
    /\ limited[f][k].pc = "sleep"
    /\ limited[f][k].sleep = 0
    /\ limited' = [limited EXCEPT ![f][k].pc = "done"]
    /\ api_semaphore' = api_semaphore + 1
    /\ last_release' = 0
    /\ refresh' = IF k = "profile" THEN [refresh EXCEPT ![f].pc = "setex_user"] ELSE refresh
    /\ UNCHANGED <<settings, clock, redis, request, cached, background>>

\* main.py 92-109: user:{username} is written, then the two batch fetches are
\* gathered.
Profile(h) == <<[screen_name |-> h]>>

WriteUser(f) ==
    /\ refresh[f].pc = "setex_user"
    /\ redis' = redis_setex(redis, <<"user", HandleOf(f)>>, cache_ttl, Profile(HandleOf(f)))
    /\ refresh' = [refresh EXCEPT ![f].pc = "gather", ![f].wrote_user = @ + 1]
    /\ limited' = [limited EXCEPT ![f]["Tweets"].pc = "wait", ![f]["Replies"].pc = "wait"]
    /\ UNCHANGED <<settings, last_release, clock, api_semaphore, request, cached, background>>

\* main.py 109-147: both batch fetches are in; merge, sort, classify, write
\* tweets:{username}; the invocation returns to the frame that awaits it:
\* get_cached_tweets goes on to its second read (82), the BackgroundTasks run
\* to its next task.
BatchesIn(f) == limited[f]["Tweets"].pc = "done" /\ limited[f]["Replies"].pc = "done"

WriteTweets(f) ==
    LET r == f[2]
        i == f[3]
        processed_tweets == ProcessTweets(limited[f]["Tweets"].res, limited[f]["Replies"].res)
        returned == [refresh EXCEPT ![f].pc = "done", ![f].wrote_tweets = @ + 1,
                               ![f].written = processed_tweets]
        consumed == [limited EXCEPT ![f]["Tweets"].res = <<>>, ![f]["Replies"].res = <<>>]
        next == <<"bg", r, i + 1>>
    IN  /\ refresh[f].pc = "gather"
        /\ BatchesIn(f)
        /\ redis' = redis_setex(redis, <<"tweets", HandleOf(f)>>, cache_ttl, processed_tweets)
        /\ IF f[1] = "fg"
           THEN /\ refresh' = returned
                /\ cached' = [cached EXCEPT ![r][i].pc = "read2"]
                /\ limited' = consumed
                /\ background' = background
           ELSE IF i < Len(request[r].usernames)
           THEN /\ refresh' = NewRefresh(returned, next)
                /\ limited' = NewProfileCall(consumed, next)
                /\ background' = [background EXCEPT ![r].pos = i + 1]
                /\ cached' = cached
           ELSE /\ refresh' = returned
                /\ background' = [background EXCEPT ![r].pc = "done"]
                /\ limited' = consumed
                /\ cached' = cached
        /\ UNCHANGED <<settings, last_release, clock, api_semaphore, request>>

\* ------------------------------------------------------- get_cached_tweets
\* Read1 that refreshes whatever the first read finds.
Read1AlwaysRefresh(r, i) ==
    LET f == <<"fg", r, i>>
    IN  /\ cached[r][i].pc = "read1"
        /\ cached' = [cached EXCEPT ![r][i] = [@ EXCEPT !.pc = "refresh", !.reads = @ + 1]]
        /\ refresh' = NewRefresh(refresh, f)
        /\ limited' = NewProfileCall(limited, f)
        /\ UNCHANGED <<settings, last_release, clock, api_semaphore, redis, request, background>>

\* main.py 74-81: the first read; a hit returns the list, a miss calls
\* refresh_user_tweets_cache.
Read1(r, i) ==
    LET k == <<"tweets", request[r].usernames[i]>>
        f == <<"fg", r, i>>
    IN  /\ cached[r][i].pc = "read1"
        /\ IF Present(k)
           THEN /\ cached' = [cached EXCEPT ![r][i] = [@ EXCEPT !.pc = "returned",
                              !.val = redis[k].val, !.reads = @ + 1, !.hit = TRUE]]
                /\ UNCHANGED <<refresh, limited>>
           ELSE /\ cached' = [cached EXCEPT ![r][i] = [@ EXCEPT !.pc = "refresh", !.reads = @ + 1]]
                /\ refresh' = NewRefresh(refresh, f)
                /\ limited' = NewProfileCall(limited, f)
        /\ UNCHANGED <<settings, last_release, clock, api_semaphore, redis, request, background>>

\* Read2 that reads nothing and returns [].
Read2Empty(r, i) ==
    /\ cached[r][i].pc = "read2"
    /\ cached' = [cached EXCEPT ![r][i] = [@ EXCEPT !.pc = "returned", !.val = <<>>,
                                                !.reads = @ + 1]]
    /\ UNCHANGED <<settings, last_release, clock, api_semaphore, redis, request, refresh, limited, background>>

\* main.py 82-83: the read after the refresh; no entry gives [].
Read2(r, i) ==
    LET k == <<"tweets", request[r].usernames[i]>>
    IN  /\ cached[r][i].pc = "read2"
        /\ cached' = [cached EXCEPT ![r][i] = [@ EXCEPT !.pc = "returned",
                      !.val = IF Present(k) THEN redis[k].val ELSE <<>>,
                      !.reads = @ + 1]]
        /\ UNCHANGED <<settings, last_release, clock, api_semaphore, redis, request, refresh, limited, background>>

\* main.py 75 or 82: redis.get raises, the store cannot be reached.
\* get_cached_tweets has no handler: its task ends with the exception, before
\* line 81 when it is the first read, and the gather of get_tweets hands the
\* exception on (238, 258-260).
ReadRaises(r, i) ==
    /\ \/ cached[r][i].pc = "read1"
       \/ cached[r][i].pc = "read2"
    /\ cached' = [cached EXCEPT ![r][i] = [@ EXCEPT !.pc = "raised", !.err = "unavailable",
                                                !.reads = @ + 1]]
    /\ request' = IF request[r].pc = "gather"
                  THEN [request EXCEPT ![r].pc = "failed", ![r].err = "unavailable"]
                  ELSE request
    /\ UNCHANGED <<settings, last_release, clock, api_semaphore, redis, refresh, limited, background>>

\* main.py 238-256: every gathered task has returned; the background
\* refreshes are added, the lists filtered, the result returned.
Serve(r) ==
    /\ request[r].pc = "gather"
    /\ \A i \in 1..Len(request[r].usernames) : cached[r][i].pc = "returned"
    /\ request' = [request EXCEPT ![r].pc = "served", ![r].result = BuildResult(r)]
    /\ background' = [background EXCEPT ![r] = [pc |-> "pending", pos |-> 0]]
    /\ UNCHANGED <<settings, last_release, clock, api_semaphore, redis, cached, refresh, limited>>

\* main.py 241-242 as Starlette runs it: the response is out, the first added
\* task starts.
BgStart(r) ==
    /\ background[r].pc = "pending"
    /\ background' = [background EXCEPT ![r] = [pc |-> "running", pos |-> 1]]
    /\ refresh' = NewRefresh(refresh, <<"bg", r, 1>>)
    /\ limited' = NewProfileCall(limited, <<"bg", r, 1>>)
    /\ UNCHANGED <<settings, last_release, clock, api_semaphore, redis, request, cached>>

\* ------------------------------------------------------------------ time
\* TickTo with the keys of redis left as they are.
TickWithoutExpiry(ticks) ==
    /\ clock < ticks
    /\ clock' = clock + 1
    /\ limited' = [f \in RefId |-> [k \in CallKinds |->
                    IF limited[f][k].sleep > 0 THEN [limited[f][k] EXCEPT !.sleep = @ - 1]
                    ELSE limited[f][k]]]
    /\ last_release' = IF last_release < request_delay THEN last_release + 1 ELSE last_release
    /\ UNCHANGED <<settings, api_semaphore, redis, request, cached, refresh, background>>

\* One tick of the clock: every countdown started by setex loses one, and a
\* key whose countdown ends is gone; every asyncio.sleep under way (main.py
\* 61) has one tick less to go.
Elapse(call) == IF call.sleep > 0 THEN [call EXCEPT !.sleep = @ - 1] ELSE call

TickTo(ticks) ==
    /\ clock < ticks
    /\ clock' = clock + 1
    /\ redis' = [k \in Keys |-> IF redis[k].ttl > 1
                                THEN [redis[k] EXCEPT !.ttl = @ - 1] ELSE NoEntry]
    /\ limited' = [f \in RefId |-> [k \in CallKinds |-> Elapse(limited[f][k])]]
    /\ last_release' = IF last_release < request_delay THEN last_release + 1 ELSE last_release
    /\ UNCHANGED <<settings, api_semaphore, request, cached, refresh, background>>

Tick == TickTo(MaxTicks)

UpstreamErrors(k) == IF k = "profile" THEN {"notfound", "error"} ELSE {"error"}
UpstreamResults(k) == IF k = "profile" THEN {<<>>} ELSE UpstreamBatches(k)

\* The steps of a request up to its response when its upstream calls all
\* succeed; what the calls return is left to each specification.
Foreground ==
    \/ \E r \in Req : AuthOk(r)
    \/ \E r \in Req, i \in Slot : Read1(r, i)
    \/ \E r \in Req, i \in Slot : Read2(r, i)
    \/ \E r \in Req : Serve(r)
    \/ \E f \in RefId, k \in CallKinds : Admit(f, k)
    \/ \E f \in RefId, k \in CallKinds : SleepDone(f, k)
    \/ \E f \in RefId : WriteUser(f)
    \/ \E f \in RefId : WriteTweets(f)

\* The same, and the background refreshes after the response.
Progress ==
    \/ Foreground
    \/ \E r \in Req : BgStart(r)

\* The upstream failing: at authentication, or in a rate-limited call.
Failures ==
    \/ \E r \in Req : AuthFails(r)
    \/ \E f \in RefId, k \in CallKinds : \E e \in UpstreamErrors(k) : UpstreamRaises(f, k, e)

\* The upstream calls returning one of the results of the alice scenario.
Returns ==
    \E f \in RefId, k \in CallKinds :
          limited[f][k].pc = "call" /\ \E res \in UpstreamResults(k) : UpstreamReturns(f, k, res)

Next ==
    \/ \E r \in Req, usernames \in UsernameLists, flags \in IncludeFlags : StartRequest(r, usernames, flags)
    \/ Progress
    \/ Returns
    \/ Failures
    \/ Tick

Spec == Init /\ [][Next]_vars

\* One request, while the cache store may be out of reach at any read.
NextCacheDown ==
    \/ \E usernames \in UsernameLists, flags \in IncludeFlags : StartRequest(1, usernames, flags)
    \/ Progress
    \/ Returns
    \/ Failures
    \/ Tick
    \/ \E r \in Req, i \in Slot : ReadRaises(r, i)

SpecCacheDown == Init /\ [][NextCacheDown]_vars

\* One request, request_delay at least one tick long, the upstream never
\* failing.
InitPaced ==
    /\ max_concurrent_requests \in 1..MaxPermits
    /\ request_delay \in 1..MaxDelay
    /\ cache_ttl = CacheTtl
    /\ Fresh

NextPaced ==
    \/ \E usernames \in UsernameLists, flags \in IncludeFlags : StartRequest(1, usernames, flags)
    \/ Progress
    \/ Returns
    \/ TickTo(MaxPacedTicks)

SpecPaced == InitPaced /\ [][NextPaced]_vars

\* The same with the upstream free to fail, at authentication or in any call.
NextPacedFailing ==
    \/ \E usernames \in UsernameLists, flags \in IncludeFlags : StartRequest(1, usernames, flags)
    \/ Progress
    \/ Returns
    \/ Failures
    \/ TickTo(MaxPacedTicks)

SpecPacedFailing == InitPaced /\ [][NextPacedFailing]_vars

\* One request whose upstream calls return or hang; the event loop runs every
\* task that can go on, and an upstream call that does not hang answers.
NextHang ==
    \/ \E usernames \in UsernameLists : StartRequest(1, usernames, Defaults)
    \/ Foreground
    \/ Returns
    \/ \E f \in RefId, k \in CallKinds : Hangs(f, k)

SpecHang == Init /\ [][NextHang]_vars /\ WF_vars(Foreground) /\ WF_vars(Returns)

\* One request and its background refreshes, the upstream calls returning or
\* raising; the event loop runs every task that can go on and an upstream
\* call under way ends.
NextLive ==
    \/ \E usernames \in UsernameLists : StartRequest(1, usernames, Defaults)
    \/ Progress
    \/ Returns
    \/ Failures

SpecLive == Init /\ [][NextLive]_vars /\ WF_vars(Progress) /\ WF_vars(Returns)

\* One request for one name with any include_* flags; the own timeline is any
\* batch of up to MaxBatch tweets of the table, of whatever type.
AllFlags == {Flags(posts, replies, retweets, quotes) : posts \in BOOLEAN, replies \in BOOLEAN,
                                                     retweets \in BOOLEAN, quotes \in BOOLEAN}

TypedTimelines == SeqsUpTo({TweetTable[n] : n \in 1..Len(TweetTable)}, MaxBatch)

TypedBatches(kind) ==
    IF kind = "profile" THEN {<<>>}
    ELSE IF kind = "Tweets" THEN TypedTimelines
    ELSE {<<>>} \cup UpstreamBatches(kind)

NextFlags ==
    \/ \E flags \in AllFlags : StartRequest(1, <<"alice">>, flags)
    \/ Progress
    \/ \E f \in RefId, k \in CallKinds :
          limited[f][k].pc = "call" /\ \E res \in TypedBatches(k) : UpstreamReturns(f, k, res)

SpecFlags == Init /\ [][NextFlags]_vars

\* One request for one name whose own timeline is one tweet with any
\* combination of the attributes _get_tweet_type reads: replies None, empty
\* or not, each of the others None (False) or not.
AnyReplies == {<<FALSE, <<>> >>, <<TRUE, <<>> >>, <<TRUE, TweetTable[4].replies>>}

AnyTweet ==
    {Tweet(1, 1, <<"h", "i">>, thread, retweeted_tweet, replies[1], replies[2], in_reply_to, is_quote_status) :
        thread \in BOOLEAN, retweeted_tweet \in BOOLEAN, replies \in AnyReplies,
        in_reply_to \in BOOLEAN, is_quote_status \in BOOLEAN}

AnyTimelines == {<<tweet>> : tweet \in AnyTweet}

AnyTypeBatches(kind) == IF kind = "Tweets" THEN AnyTimelines ELSE {<<>>}

NextTypes ==
    \/ StartRequest(1, <<"alice">>, Defaults)
    \/ Progress
    \/ \E f \in RefId, k \in CallKinds :
          limited[f][k].pc = "call" /\ \E res \in AnyTypeBatches(k) : UpstreamReturns(f, k, res)

SpecTypes == Init /\ [][NextTypes]_vars

\* One request for one name, up to its response; each batch is any list of up
\* to MaxMerge tweets with ids up to MaxIds created at instants up to MaxTimes
\* (one id may come with two instants), or a batch of the alice scenario.
MergeTweets ==
    {Tweet(id, created_at, <<"h", "i">>, FALSE, FALSE, FALSE, <<>>, FALSE, FALSE) :
        id \in 1..MaxIds, created_at \in 1..MaxTimes}

MergeLists == SeqsUpTo(MergeTweets, MaxMerge)

MergeBatches(kind) ==
    IF kind = "profile" THEN {<<>>} ELSE MergeLists \cup UpstreamBatches(kind)

NextMerge ==
    \/ StartRequest(1, <<"alice">>, Defaults)
    \/ Foreground
    \/ \E f \in RefId, k \in CallKinds :
          limited[f][k].pc = "call" /\ \E res \in MergeBatches(k) : UpstreamReturns(f, k, res)

SpecMerge == Init /\ [][NextMerge]_vars

\* One request for one name, up to its response; the own timeline is one
\* tweet with one reply, both with the same text: "RT @", a near miss of it
\* or an "x", followed by up to MaxText characters other than "x" and "R".
Heads == {<<"x">>, RT, <<"R", "T", " ">>, <<"x">> \o RT}
Texts == {head \o tail : head \in Heads, tail \in SeqsUpTo({"a", ":", " "}, MaxText)}

TextTimelines ==
    {<<Tweet(1, 1, text, FALSE, FALSE, TRUE, <<Reply(9, 3, text, "bob", 7)>>, FALSE, FALSE)>> :
        text \in Texts}

TextBatches(kind) == IF kind = "Tweets" THEN TextTimelines ELSE {<<>>}

NextText ==
    \/ StartRequest(1, <<"alice">>, Defaults)
    \/ Foreground
    \/ \E f \in RefId, k \in CallKinds :
          limited[f][k].pc = "call" /\ \E res \in TextBatches(k) : UpstreamReturns(f, k, res)

SpecText == Init /\ [][NextText]_vars

\* Requests for alice alone, up to their responses, over MaxTtlTicks ticks
\* with cache_ttl up to MaxTtl ticks.
InitTtl ==
    /\ max_concurrent_requests = MaxPermits
    /\ request_delay = 0
    /\ cache_ttl \in 1..MaxTtl
    /\ Fresh

NextTtl ==
    \/ \E r \in Req : StartRequest(r, <<"alice">>, Defaults)
    \/ Foreground
    \/ Returns
    \/ TickTo(MaxTtlTicks)

SpecTtl == InitTtl /\ [][NextTtl]_vars

\* ================================================================ claims
Calls == RefId \X CallKinds
InCall == {c \in Calls : limited[c[1]][c[2]].pc = "call"}
Waiting == {c \in Calls : limited[c[1]][c[2]].pc = "wait"}
Started(f) == refresh[f].pc # "none"

\* The invocations for handle h with an upstream call in progress.
Executing(h) == {f \in RefId : Started(f) /\ HandleOf(f) = h /\ \E k \in CallKinds : limited[f][k].pc = "call"}

\* C1: in every reachable state the upstream fetch calls (profile, own
\* timeline, replies) in progress inside rate_limited_request number at most
\* max_concurrent_requests.
C1_AtMostMaxConcurrent == Cardinality(InCall) <= max_concurrent_requests

\* C1 witness: max_concurrent_requests >= 2 calls are in progress at once
\* while a further call waits for a permit.
C1_Witness ==
    /\ max_concurrent_requests >= 2
    /\ Cardinality(InCall) = max_concurrent_requests
    /\ Waiting # {}

\* C2 as claimed: for every handle at most one invocation of
\* refresh_user_tweets_cache executes an upstream call at any instant.
C2_OneRefreshPerHandle == \A h \in Handles : Cardinality(Executing(h)) <= 1

\* C2 as amended: for every handle the invocations executing an upstream
\* call number at most max_concurrent_requests; nothing but the permits
\* keeps two invocations for one handle apart.
C2_PerHandleAtMostPermits ==
    \A h \in Handles : Cardinality(Executing(h)) <= max_concurrent_requests

\* C2 witness: a foreground refresh and a background refresh of the same
\* handle both have an upstream call in progress.
C2_Witness ==
    \E h \in Handles : \E f, b \in Executing(h) : f[1] = "fg" /\ b[1] = "bg"

OneEach == [k \in CallKinds |-> 1]
ProfileOnly == [k \in CallKinds |-> IF k = "profile" THEN 1 ELSE 0]
TweetsKey(f) == <<"tweets", HandleOf(f)>>

\* No other invocation for the handle of f has written tweets:{h}.
Sole(f) ==
    \A o \in RefId \ {f} : (Started(o) /\ HandleOf(o) = HandleOf(f)) => refresh[o].wrote_tweets = 0

\* C3: a get_cached_tweets(h) call that misses and whose upstream calls all
\* succeed makes exactly one profile, one own-timeline and one replies fetch;
\* when its refresh returns tweets:{h} holds the list the refresh built; and
\* the call, when no other refresh of h wrote and the entry is still there at
\* the second read, returns that list.
C3_ReadThrough ==
    [][\A r \in Req, i \in Slot :
        LET f == <<"fg", r, i>>
        IN  /\ (refresh[f].pc = "gather" /\ refresh'[f].pc = "done")
                => /\ refresh'[f].calls = OneEach
                   /\ refresh'[f].wrote_tweets = 1
                   /\ redis'[TweetsKey(f)] = [val |-> refresh'[f].written, ttl |-> cache_ttl]
            /\ (cached[r][i].pc = "read2" /\ cached'[r][i].pc = "returned")
                => /\ refresh'[f].calls = OneEach
                   /\ (Sole(f) /\ Present(TweetsKey(f))) => cached'[r][i].val = refresh[f].written
      ]_vars

\* C3 witness: a call that missed has returned the non-empty list its refresh
\* wrote, no other refresh of the handle having written.
C3_Witness ==
    \E r \in Req, i \in Slot :
        /\ cached[r][i].pc = "returned" /\ ~cached[r][i].hit
        /\ Sole(<<"fg", r, i>>)
        /\ cached[r][i].val = refresh[<<"fg", r, i>>].written
        /\ cached[r][i].val # <<>>

\* C4: a get_cached_tweets(h) call that finds tweets:{h} returns the cached
\* list after one read, and its step starts no refresh, no rate-limited call,
\* takes no permit and leaves the cache as it was.
C4_HitFrame ==
    [][\A r \in Req, i \in Slot :
        (cached[r][i].pc = "read1" /\ cached'[r][i].pc # "read1"
            /\ Present(<<"tweets", request[r].usernames[i]>>))
        => /\ cached'[r][i].pc = "returned"
           /\ cached'[r][i].val = redis[<<"tweets", request[r].usernames[i]>>].val
           /\ cached'[r][i].reads = 1
           /\ refresh'[<<"fg", r, i>>].pc = "none"
           /\ refresh' = refresh /\ limited' = limited
           /\ api_semaphore' = api_semaphore
           /\ redis' = redis
      ]_vars

\* C4 witness: a call has returned a non-empty list from its first read.
C4_Witness ==
    \E r \in Req, i \in Slot :
        /\ cached[r][i].pc = "returned" /\ cached[r][i].hit
        /\ cached[r][i].reads = 1 /\ cached[r][i].val # <<>>
        /\ ~Started(<<"fg", r, i>>)

\* What the frame awaiting invocation f has seen of error e.
CallerGot(f, e) ==
    IF f[1] = "fg"
    THEN cached[f[2]][f[3]].pc = "raised" /\ cached[f[2]][f[3]].err = e
    ELSE background[f[2]].pc = "aborted"

\* C5: when the profile fetch of an invocation reports that the handle does
\* not exist, the invocation has ended with a 404 handed to its caller, has
\* written neither user:{h} nor tweets:{h}, and has made no other upstream
\* call.
C5_NotFound ==
    \A f \in RefId :
        limited[f]["profile"].err = "notfound"
        => /\ refresh[f].pc = "failed" /\ refresh[f].err = "404"
           /\ CallerGot(f, "404")
           /\ refresh[f].wrote_user = 0 /\ refresh[f].wrote_tweets = 0
           /\ refresh[f].calls = ProfileOnly
           /\ limited[f]["Tweets"].pc = "none" /\ limited[f]["Replies"].pc = "none"

\* C5 witness: a foreground invocation has met a handle that does not exist.
C5_Witness ==
    \E r \in Req, i \in Slot :
        /\ limited[<<"fg", r, i>>]["profile"].err = "notfound"
        /\ request[r].pc = "failed" /\ request[r].err = "404"

\* C6 as claimed: an invocation that ended on an upstream error other than
\* NotFound has left user:{h} and tweets:{h} with the value and expiry they
\* had; setex restarts the countdown, so it has written neither key.
C6_FailureLeavesCache ==
    \A f \in RefId :
        (refresh[f].pc = "failed" /\ refresh[f].err = "error")
        => refresh[f].wrote_user = 0 /\ refresh[f].wrote_tweets = 0

Raised(r) == {i \in 1..Len(request[r].usernames) : cached[r][i].pc = "raised"}

\* C7: when the refresh called on a miss fails, get_cached_tweets ends with
\* that error, not with a list, and the get_tweets request that gathered it
\* ends with the error of one of its failed calls and without a result.
C7_MissFailurePropagates ==
    \A r \in Req, i \in Slot :
        refresh[<<"fg", r, i>>].pc = "failed"
        => /\ cached[r][i].pc = "raised"
           /\ cached[r][i].err = refresh[<<"fg", r, i>>].err
           /\ cached[r][i].val = <<>>
           /\ request[r].pc = "failed"
           /\ request[r].err \in {cached[r][j].err : j \in Raised(r)}
           /\ request[r].result = NoResult

\* C7 witness: a refresh on a miss failed on an upstream error after its
\* profile fetch, and the request ended with that error.
C7_Witness ==
    \E r \in Req, i \in Slot :
        /\ refresh[<<"fg", r, i>>].pc = "failed" /\ refresh[<<"fg", r, i>>].err = "error"
        /\ refresh[<<"fg", r, i>>].wrote_user = 1
        /\ ~cached[r][i].hit /\ cached[r][i].reads = 1
        /\ request[r].pc = "failed" /\ request[r].err = "error"

\* C8: the result of a served request never changes afterwards, whatever its
\* background refreshes do, and a background refresh starts only when the
\* request that added it has already returned its result.
C8_ResultFixed ==
    [][/\ \A r \in Req : request[r].pc = "served" => request'[r] = request[r]
       /\ \A r \in Req, i \in Slot :
            (~Started(<<"bg", r, i>>) /\ refresh'[<<"bg", r, i>>].pc # "none")
            => request[r].pc = "served"
      ]_vars

\* C8 witness: a background refresh has failed and the request that added it
\* still holds its non-empty result.
C8_Witness ==
    \E r \in Req, i \in Slot :
        /\ refresh[<<"bg", r, i>>].pc = "failed"
        /\ request[r].pc = "served"
        /\ \E h \in Handles : request[r].result[h] # <<>>

BgRunOver(r) == background[r].pc \in {"done", "aborted"}

\* C9 as claimed: a served request with a non-empty list of distinct names has added one
\* background refresh per listed name, each of them starts only after the
\* request's cache reads, and once the background run is over each of them
\* has run.
C9_EveryBackgroundRefreshRuns ==
    \A r \in Req :
        (request[r].pc = "served" /\ Len(request[r].usernames) > 0
            /\ \A i, j \in 1..Len(request[r].usernames) :
                  i # j => request[r].usernames[i] # request[r].usernames[j])
        => /\ background[r].pc # "none"
           /\ \A i \in 1..Len(request[r].usernames) :
                /\ Started(<<"bg", r, i>>) => \A j \in 1..Len(request[r].usernames) : cached[r][j].pc = "returned"
                /\ BgRunOver(r) => Started(<<"bg", r, i>>)

RefreshesOf(r) == {f \in RefId : f[2] = r /\ f[3] <= Len(request[r].usernames)}
Busy(f) == refresh[f].pc \in {"profile", "setex_user", "gather"}
              \/ \E k \in CallKinds : limited[f][k].pc \in {"wait", "call", "sleep"}

\* Nothing of request r is left to run.
Settled(r) ==
    /\ request[r].pc \in {"served", "failed"}
    /\ background[r].pc \notin {"pending", "running"}
    /\ \A i \in Slot : cached[r][i].pc \in {"none", "returned", "raised"}
    /\ \A f \in RefreshesOf(r) : ~Busy(f)

\* A refresh the request has called (foreground) or added (background).
Scheduled(f) == IF f[1] = "fg" THEN Started(f) ELSE background[f[2]].pc # "none"
OwnFailure(f) == \E k \in CallKinds : limited[f][k].pc = "failed"

\* C10 as claimed: when a refresh of a request fails on a transient upstream
\* error, every sibling refresh of the request, foreground or added
\* background, whose own upstream calls do not fail has, once nothing of the
\* request is left to run, written its user:{h} and tweets:{h}.
C10_SiblingsComplete ==
    \A r \in Req :
        Settled(r)
        => \A f, g \in RefreshesOf(r) :
              (HandleOf(f) # HandleOf(g)
                  /\ refresh[f].pc = "failed" /\ refresh[f].err = "error"
                  /\ Scheduled(g) /\ ~OwnFailure(g))
              => refresh[g].wrote_user = 1 /\ refresh[g].wrote_tweets = 1
\* C11 as claimed: a get_cached_tweets(h) call whose read of tweets:{h}
\* finds the cache store out of reach goes on as after a miss, so its refresh
\* has been called, and its request does not end with the store's error.
C11_CacheDownIsMiss ==
    \A r \in Req, i \in Slot :
        cached[r][i].err = "unavailable"
        => /\ Started(<<"fg", r, i>>)
           /\ request[r].err # "unavailable"

\* The calls that hold a permit: the upstream call or the sleep under way.
Holders == {c \in Calls : limited[c[1]][c[2]].pc \in {"call", "hung", "sleep"}}

\* C12 as claimed: of the rate_limited_request calls issued together at most
\* max_concurrent_requests hold a permit, a call starts its upstream call only
\* when a permit is free (at once while permits are left, after a release
\* otherwise), and while calls wait for a permit a permit is released only
\* when request_delay has passed since the release before it.
C12_PacedReleases ==
    [][/\ Cardinality(Holders') <= max_concurrent_requests
       /\ \A c \in Calls : (c \in Waiting /\ c \in InCall') => api_semaphore > 0
       /\ (api_semaphore' > api_semaphore /\ Waiting # {}) => last_release = request_delay
      ]_vars

\* C13: the permits out are exactly those of the calls between their
\* admission and their exit, by return or by exception; so when no
\* rate_limited_request call is in progress every permit is back.
C13_PermitsBalanced ==
    /\ api_semaphore = max_concurrent_requests - Cardinality(Holders)
    /\ Holders = {} => api_semaphore = max_concurrent_requests

\* C13 witness: an upstream call has raised, another has returned and slept,
\* none is in progress or waiting, and every permit is free.
C13_Witness ==
    /\ \E c \in Calls : limited[c[1]][c[2]].pc = "failed"
    /\ \E c \in Calls : limited[c[1]][c[2]].pc = "done"
    /\ Holders = {} /\ Waiting = {}
    /\ api_semaphore = max_concurrent_requests

Ids(batch) == {batch[n].id : n \in 1..Len(batch)}
Types(user_tweets) == {user_tweets[n].type : n \in 1..Len(user_tweets)}

\* The flag that enables a type; Thread has none.
Enabled(flags, type) ==
    CASE type = "Post" -> flags.include_posts
      [] type = "Reply" -> flags.include_replies
      [] type = "Retweet" -> flags.include_retweets
      [] type = "Quote" -> flags.include_quotes
      [] OTHER -> FALSE

Kept(flags, user_tweets) == {n \in 1..Len(user_tweets) : Enabled(flags, user_tweets[n].type)}

\* The j-th smallest member of a set of positions.
Nth(S, j) == CHOOSE n \in S : Cardinality({m \in S : m < n}) = j - 1

\* result is user_tweets with the positions outside Kept struck out.
IsKeptSubsequence(result, user_tweets, flags) ==
    /\ Len(result) = Cardinality(Kept(flags, user_tweets))
    /\ \A j \in 1..Len(result) : result[j] = user_tweets[Nth(Kept(flags, user_tweets), j)]

\* C14: whatever the include_* flags of the request a refresh runs for, the
\* list it writes to tweets:{h} holds one classified post for every id
\* fetched, none struck out; and the list a request returns for h is the list
\* its get_cached_tweets call returned with exactly the posts struck out whose
\* type its flags do not enable, the order kept.
C14_FilterAfterCache ==
    [][/\ \A f \in RefId :
            (refresh[f].pc = "gather" /\ refresh'[f].pc = "done")
            => LET stored == redis'[TweetsKey(f)].val
                   fetched == Ids(limited[f]["Tweets"].res) \cup Ids(limited[f]["Replies"].res)
               IN  /\ Ids(stored) = fetched
                   /\ Len(stored) = Cardinality(fetched)
                   /\ Types(stored) \subseteq {"Thread", "Retweet", "Reply", "Quote", "Post"}
       /\ \A r \in Req :
            (request[r].pc = "gather" /\ request'[r].pc = "served")
            => \A i \in 1..Len(request[r].usernames) :
                  IsKeptSubsequence(request'[r].result[request[r].usernames[i]],
                                    cached[r][LastSlot(request[r].usernames, request[r].usernames[i])].val,
                                    request[r].flags)
      ]_vars

\* C14 witness: a request that asked for no replies and no quotes has been
\* served posts of alice only, while the list its own refresh wrote to
\* tweets:alice holds a reply, a quote and a post.
C14_Witness ==
    \E r \in Req :
        /\ request[r].pc = "served"
        /\ ~request[r].flags.include_replies /\ ~request[r].flags.include_quotes
        /\ request[r].flags.include_posts
        /\ refresh[<<"fg", r, 1>>].wrote_tweets = 1
        /\ {"Reply", "Quote", "Post"} \subseteq Types(refresh[<<"fg", r, 1>>].written)
        /\ Types(request[r].result["alice"]) = {"Post"}
        /\ Len(request[r].result["alice"]) < Len(cached[r][1].val)

\* The signals in their order of precedence, and the type each one gives.
TypeNames == <<"Thread", "Retweet", "Reply", "Quote", "Post">>
Signals(tweet) ==
    <<tweet.thread,
      tweet.retweeted_tweet,
      (tweet.replies_given /\ tweet.replies # <<>>) \/ tweet.in_reply_to,
      tweet.is_quote_status,
      TRUE>>
FirstSignal(tweet) ==
    CHOOSE n \in 1..5 : Signals(tweet)[n] /\ \A m \in 1..(n - 1) : ~Signals(tweet)[m]

\* C15: whatever combination of thread, retweeted original, reply list (None,
\* empty, non-empty), reply target and quote flag a fetched tweet has, the
\* post stored for it has one of the five types, the one of the first signal
\* present in the order thread, retweet, reply signal, quote, else Post.
C15_TypeByPrecedence ==
    [][\A f \in RefId :
        (refresh[f].pc = "gather" /\ refresh'[f].pc = "done")
        => LET fetched == limited[f]["Tweets"].res \o limited[f]["Replies"].res
               stored == redis'[TweetsKey(f)].val
           IN  /\ Len(stored) = Len(fetched)
               /\ \A n \in 1..Len(stored) :
                    /\ stored[n].type \in {TypeNames[t] : t \in 1..5}
                    /\ stored[n].type = TypeNames[FirstSignal(fetched[n])]
      ]_vars

\* C15 witness: the stored post of a tweet that is part of a thread and has
\* replies is a Thread.
C15_Witness ==
    \E f \in RefId :
        /\ refresh[f].wrote_tweets = 1
        /\ Len(refresh[f].written) = 1
        /\ refresh[f].written[1].type = "Thread"
        /\ refresh[f].written[1].in_reply_to # <<>>

\* The first position of an id in the fetched tweets, own timeline then replies.
FirstAt(fetched, id) ==
    CHOOSE n \in 1..Len(fetched) : fetched[n].id = id /\ \A m \in 1..(n - 1) : fetched[m].id # id

AliceStored == <<[id |-> 3, type |-> "Reply"], [id |-> 2, type |-> "Retweet"], [id |-> 1, type |-> "Post"]>>
IdAndType(stored) == [n \in 1..Len(stored) |-> [id |-> stored[n].id, type |-> stored[n].type]]

\* C16: the list a refresh stores for the two batches it fetched has every
\* fetched id once, is no longer than the batches together, holds for each id
\* the first occurrence (own timeline first, then replies, each in its
\* order), runs from the latest creation instant to the earliest, and keeps
\* posts of one instant in the order of their first occurrences; for the
\* batches of the alice scenario it is 3 (Reply), 2 (Retweet), 1 (Post).
C16_DedupedAndSorted ==
    [][\A f \in RefId :
        (refresh[f].pc = "gather" /\ refresh'[f].pc = "done")
        => LET fetched == limited[f]["Tweets"].res \o limited[f]["Replies"].res
               stored == redis'[TweetsKey(f)].val
               at(n) == FirstAt(fetched, stored[n].id)
           IN  /\ \A m, n \in 1..Len(stored) : m # n => stored[m].id # stored[n].id
               /\ Len(stored) <= Len(fetched)
               /\ Ids(stored) = Ids(fetched)
               /\ \A n \in 1..Len(stored) : stored[n].created_at = fetched[at(n)].created_at
               /\ \A m, n \in 1..Len(stored) :
                    m < n => /\ stored[m].created_at >= stored[n].created_at
                             /\ stored[m].created_at = stored[n].created_at => at(m) < at(n)
               /\ (limited[f]["Tweets"].res = <<TweetTable[1], TweetTable[2]>>
                      /\ limited[f]["Replies"].res = <<TweetTable[2], TweetTable[3]>>)
                  => IdAndType(stored) = AliceStored
      ]_vars

\* C16 witness: the refresh of the alice scenario has stored 3, 2, 1.
C16_Witness ==
    \E f \in RefId :
        /\ refresh[f].wrote_tweets = 1
        /\ IdAndType(refresh[f].written) = AliceStored
        /\ redis[TweetsKey(f)].val = refresh[f].written

Colons(text) == {n \in 1..Len(text) : text[n] = ":"}
FirstColon(text) == CHOOSE n \in Colons(text) : \A m \in Colons(text) : n <= m

\* cleaned is text without its first n characters.
IsRest(cleaned, text, n) ==
    /\ Len(cleaned) = (IF Len(text) > n THEN Len(text) - n ELSE 0)
    /\ \A j \in 1..Len(cleaned) : cleaned[j] = text[n + j]

\* What clean_tweet has to give for a text.
Cleaned(cleaned, text) ==
    IF Len(text) < 4 \/ <<text[1], text[2], text[3], text[4]>> # <<"R", "T", " ", "@">>
          \/ Colons(text) = {}
    THEN cleaned = text
    ELSE /\ IsRest(cleaned, text, FirstColon(text) + 1)
         /\ (Len(text) > FirstColon(text) /\ text[FirstColon(text) + 1] = " ")
            => Cardinality(Colons(cleaned)) = Cardinality(Colons(text)) - 1

\* C17: the text stored for a fetched tweet, and for each of its replies, is
\* the fetched text itself when that does not begin with "RT @" or has no
\* colon, and otherwise what follows the first colon and the character after
\* it; when that character is the space of ": " every later colon is kept.
C17_CleanTweet ==
    [][\A f \in RefId :
        (refresh[f].pc = "gather" /\ refresh'[f].pc = "done")
        => LET fetched == limited[f]["Tweets"].res \o limited[f]["Replies"].res
               stored == redis'[TweetsKey(f)].val
           IN  /\ Len(stored) = Len(fetched)
               /\ \A n \in 1..Len(stored) :
                    /\ Cleaned(stored[n].full_text, fetched[n].full_text)
                    /\ Len(stored[n].in_reply_to) = Len(fetched[n].replies)
                    /\ \A m \in 1..Len(stored[n].in_reply_to) :
                          Cleaned(stored[n].in_reply_to[m].full_text, fetched[n].replies[m].full_text)
      ]_vars

\* C17 witness: the stored text ":a", which is what is left of the fetched
\* "RT @a: :a" (no fetched text begins with a colon), for the tweet and for
\* its reply.
C17_Witness ==
    \E f \in RefId :
        /\ refresh[f].wrote_tweets = 1
        /\ Len(refresh[f].written) = 1
        /\ refresh[f].written[1].full_text = <<":", "a">>
        /\ refresh[f].written[1].in_reply_to[1].full_text = <<":", "a">>

\* An entry one tick older.
Aged(entry) == IF entry.ttl > 1 THEN [entry EXCEPT !.ttl = @ - 1] ELSE NoEntry

\* The invocations whose write of tweets:{h} is this step.
Writing(h) ==
    {f \in RefId : Started(f) /\ HandleOf(f) = h
                    /\ refresh[f].pc = "gather" /\ refresh'[f].pc = "done"}

\* C18: tweets:{h} starts a countdown of cache_ttl ticks at each write, loses
\* one at each tick and is gone with its value when none is left, and does
\* not change otherwise; a get_cached_tweets(h) call returns the value of an
\* entry whose countdown is not over, and when it is over (or there never was
\* an entry) the first read takes the miss path and calls the refresh, the
\* read after the refresh gives [].
C18_FreshOrMiss ==
    [][/\ \A h \in Handles :
            LET k == <<"tweets", h>>
            IN  IF Writing(h) # {}
                THEN \E f \in Writing(h) : redis'[k] = [val |-> refresh'[f].written, ttl |-> cache_ttl]
                ELSE IF clock' # clock THEN redis'[k] = Aged(redis[k])
                ELSE redis'[k] = redis[k]
       /\ \A r \in Req, i \in Slot :
            /\ (cached[r][i].pc = "read1" /\ cached'[r][i].pc # "read1")
               => IF redis[<<"tweets", request[r].usernames[i]>>].ttl > 0
                  THEN /\ cached'[r][i].pc = "returned"
                       /\ cached'[r][i].val = redis[<<"tweets", request[r].usernames[i]>>].val
                  ELSE /\ cached'[r][i].pc = "refresh"
                       /\ ~Started(<<"fg", r, i>>) /\ refresh'[<<"fg", r, i>>].pc = "profile"
            /\ (cached[r][i].pc = "read2" /\ cached'[r][i].pc # "read2")
               => cached'[r][i].val = (IF redis[<<"tweets", request[r].usernames[i]>>].ttl > 0
                                      THEN redis[<<"tweets", request[r].usernames[i]>>].val
                                      ELSE <<>>)
      ]_vars

\* C18 witness: with cache_ttl two ticks, the second request has read, from
\* its first read, the list written a tick before; and the first request,
\* which met no entry, went through the refresh.
C18_Witness ==
    /\ cache_ttl = 2 /\ clock >= 1
    /\ redis[<<"tweets", "alice">>].ttl = 1
    /\ request[2].pc = "gather"
    /\ cached[2][1].pc = "returned" /\ cached[2][1].hit
    /\ cached[2][1].val = redis[<<"tweets", "alice">>].val /\ cached[2][1].val # <<>>
    /\ ~cached[1][1].hit /\ refresh[<<"fg", 1, 1>>].wrote_tweets = 1

\* The invocations for handle h that have written tweets:{h}.
WroteFor(h) == {f \in RefId : Started(f) /\ HandleOf(f) = h /\ refresh[f].wrote_tweets = 1}

\* The ids of the two batches invocation f holds.
Fetched(f) == Ids(limited[f]["Tweets"].res) \cup Ids(limited[f]["Replies"].res)

\* C19: whatever the interleaving of the refreshes of a handle h, a write of
\* tweets:{h} replaces the value by the list of the writing invocation alone,
\* which has each id of the two batches that invocation fetched exactly once
\* and no other; no other step changes the value except by dropping the whole
\* entry; so a present tweets:{h} is always the whole list of one invocation,
\* the one that wrote last.
C19_WholeListLastWriter ==
    [][\A h \in Handles :
        LET k == <<"tweets", h>>
        IN  /\ \A f \in Writing(h) :
                 /\ redis'[k].val = refresh'[f].written
                 /\ Ids(refresh'[f].written) = Fetched(f)
                 /\ Len(refresh'[f].written) = Cardinality(Fetched(f))
            /\ Writing(h) = {} => (redis'[k].val = redis[k].val \/ redis'[k] = NoEntry)
            /\ redis'[k].ttl > 0 => \E f \in WroteFor(h)' : redis'[k].val = refresh'[f].written
      ]_vars

\* C19 witness: no tick has passed; a foreground refresh of one request and a
\* background refresh of the other, for the same handle, have both written,
\* different lists; the entry holds the foreground one's, which therefore
\* started (on a miss) before the background one and wrote after it.
C19_Witness ==
    /\ clock = 0
    /\ \E r \in Req, q \in Req, i \in Slot, j \in Slot :
        LET f == <<"fg", r, i>>
            b == <<"bg", q, j>>
        IN  /\ r # q
            /\ Started(f) /\ Started(b) /\ HandleOf(f) = HandleOf(b)
            /\ refresh[f].wrote_tweets = 1 /\ refresh[b].wrote_tweets = 1
            /\ refresh[f].written # refresh[b].written
            /\ Present(TweetsKey(f))
            /\ redis[TweetsKey(f)].val = refresh[f].written

UserKey(f) == <<"user", HandleOf(f)>>

\* The two writes of an invocation, each one write with cache_ttl.
TwoWrites(f) ==
    /\ (refresh[f].pc = "setex_user" /\ refresh'[f].pc = "gather")
        => /\ refresh'[f].wrote_user = 1 /\ refresh'[f].wrote_tweets = 0
           /\ redis'[UserKey(f)] = [val |-> Profile(HandleOf(f)), ttl |-> cache_ttl]
    /\ (refresh[f].pc = "gather" /\ refresh'[f].pc = "done")
        => /\ refresh'[f].wrote_user = 1 /\ refresh'[f].wrote_tweets = 1
           /\ redis'[TweetsKey(f)].ttl = cache_ttl

\* C20: an invocation of refresh_user_tweets_cache(h) whose upstream calls
\* all succeed writes user:{h} once and tweets:{h} once, each with cache_ttl,
\* and when it returns both user:{h} and tweets:{h} are present.
C20_TwoWritesBothPresent ==
    [][\A f \in RefId :
        /\ TwoWrites(f)
        /\ (refresh[f].pc = "gather" /\ refresh'[f].pc = "done")
            => (redis'[UserKey(f)].ttl > 0 /\ redis'[TweetsKey(f)].ttl > 0)
      ]_vars

\* The ticks since the upstream call of c ended: none while it is under way,
\* those of the sleep that have gone by afterwards.
SinceEnded(c) ==
    IF limited[c[1]][c[2]].pc = "sleep" THEN request_delay - limited[c[1]][c[2]].sleep ELSE 0

\* C21: a call gives its permit back only when request_delay has passed
\* since its upstream call ended, whether that call returned or raised.
C21_DelayAfterEveryCall ==
    [][\A c \in Calls : (c \in Holders /\ c \notin Holders') => SinceEnded(c) >= request_delay]_vars

Hung == {c \in Calls : limited[c[1]][c[2]].pc = "hung"}

\* C22: a call whose upstream call hangs gives its permit back all the same,
\* in the end, and a call that waits for a permit while another hangs is
\* admitted, in the end.
C22_HangStillReleases ==
    /\ \A c \in Calls : (c \in Hung) ~> (c \notin Holders)
    /\ \A c \in Calls : (c \in Waiting /\ Hung # {}) ~> (c \notin Waiting)

\* The get_cached_tweets(h) calls that found no entry and await their refresh.
Missed(h) ==
    {t \in Req \X Slot : /\ cached[t[1]][t[2]].pc = "refresh"
                          /\ request[t[1]].usernames[t[2]] = h}

\* Those of them whose refresh has made its fetch of kind k.
Fetching(h, k) == {t \in Missed(h) : refresh[<<"fg", t[1], t[2]>>].calls[k] >= 1}

\* C23: the get_cached_tweets(h) calls under way together on an absent
\* tweets:{h} share one fetch sequence: between them at most one profile
\* fetch, one own-timeline fetch and one replies fetch are made for h.
C23_ColdCallsCollapse ==
    \A h \in Handles, k \in CallKinds : Cardinality(Fetching(h, k)) <= 1

\* C24: whenever tweets:{h} is present, user:{h} is present too.
C24_ProfileWherePosts ==
    \A h \in Handles : Present(<<"tweets", h>>) => Present(<<"user", h>>)

\* The tweets of the two batches invocation f holds that are part of a thread.
FetchedThreads(f) ==
    {tweet \in {limited[f]["Tweets"].res[n] : n \in 1..Len(limited[f]["Tweets"].res)}
              \cup {limited[f]["Replies"].res[n] : n \in 1..Len(limited[f]["Replies"].res)} :
        tweet.thread}

\* C25: a refresh stores every fetched tweet that is part of a thread in
\* tweets:{h}, with type Thread; and no list a request returns holds a post
\* of type Thread, whatever its four include_* flags, all true included.
C25_ThreadsStoredNeverServed ==
    [][/\ \A f \in RefId :
            (refresh[f].pc = "gather" /\ refresh'[f].pc = "done")
            => \A tweet \in FetchedThreads(f) :
                  \E m \in 1..Len(redis'[TweetsKey(f)].val) :
                      /\ redis'[TweetsKey(f)].val[m].id = tweet.id
                      /\ redis'[TweetsKey(f)].val[m].type = "Thread"
       /\ \A r \in Req :
            (request[r].pc = "gather" /\ request'[r].pc = "served")
            => \A h \in Handles : "Thread" \notin Types(request'[r].result[h])
      ]_vars

\* C25 witness: a request with its four flags true has been served the list
\* its get_cached_tweets call returned less the one thread in it, which
\* tweets:alice still holds.
C25_Witness ==
    \E r \in Req :
        /\ request[r].pc = "served" /\ request[r].flags = Defaults
        /\ "Thread" \in Types(cached[r][1].val)
        /\ Present(<<"tweets", "alice">>)
        /\ "Thread" \in Types(redis[<<"tweets", "alice">>].val)
        /\ Len(request[r].result["alice"]) = Len(cached[r][1].val) - 1
        /\ Len(request[r].result["alice"]) >= 1
        /\ "Thread" \notin Types(request[r].result["alice"])

\* The batch fetches of an invocation start only when its profile fetch has
\* given its permit back, and while a call waits with no permit free some
\* call holds one, none of which waits for anything but its own upstream call
\* or sleep.
NoHoldAndWait ==
    /\ \A f \in RefId :
          (limited[f]["Tweets"].pc # "none" \/ limited[f]["Replies"].pc # "none")
          => limited[f]["profile"].pc = "done"
    /\ (Waiting # {} /\ api_semaphore = 0) => Holders # {}

RefreshOver(f) == refresh[f].pc \in {"done", "failed"}
CachedOver(r, i) == cached[r][i].pc \in {"returned", "raised"}

\* Nothing that started is left unfinished: no call waits for a permit, every
\* refresh invocation and every get_cached_tweets call that started is over.
Quiet ==
    /\ Waiting = {}
    /\ \A f \in RefId : Started(f) => RefreshOver(f)
    /\ \A r \in Req, i \in Slot : (cached[r][i].pc # "none") => CachedOver(r, i)

\* C26: no call waits for a permit while the task it belongs to holds one;
\* and, for every max_concurrent_requests >= 1, when the event loop is fair
\* and the upstream calls end, whatever has started by any instant is over at
\* some later one: every call that waits for a permit is admitted, every
\* refresh invocation and every get_cached_tweets call ends.
C26_NoPermitDeadlock ==
    /\ []NoHoldAndWait
    /\ []<>Quiet

\* C26 witness: with a single permit, one foreground refresh of the request
\* is over and the other has its own-timeline fetch holding the permit while
\* its replies fetch waits for it.
C26_Witness ==
    /\ max_concurrent_requests = 1 /\ api_semaphore = 0
    /\ \E i \in Slot, j \in Slot :
        /\ i # j
        /\ refresh[<<"fg", 1, i>>].pc = "done"
        /\ refresh[<<"fg", 1, j>>].pc = "gather"
        /\ <<<<"fg", 1, j>>, "Tweets">> \in Holders
        /\ <<<<"fg", 1, j>>, "Replies">> \in Waiting
====
